---- MODULE Spec2Model ----
(***************************************************************************)
(* React SSR demo (react_ssr): the Express page handler, the HTML template *)
(* function and the client hydration entry.                                *)
(*                                                                         *)
(* Strings are modelled as sequences of tokens, concatenated the way the   *)
(* template literals concatenate them.  A token is a record [t, n]: t is   *)
(* the text of the token and n carries a number where the text embeds one  *)
(* (the clock value of the timestamp comment), 0 otherwise.                *)
(***************************************************************************)
EXTENDS Integers, Sequences, FiniteSets, TLC

VARIABLES
  now,      \* the server's clock (Date)
  reqs,     \* the page requests and the responses written to them
  mount,    \* the state of the mount point of each request's page
  page,     \* the browser's side of each page load
  asmIn,    \* the arguments of a direct use of renderTemplate
  asmOut,   \* the documents that use has returned
  apiReq,   \* a request to the /api/hello route handlers
  apiResp,  \* the Response the route handler returned
  rpIn,     \* the arguments of a direct use of replaceUrlParams
  rpOut,    \* what that use returned
  rqClock,  \* Date.now() of the browser running the request module, in ms
  rqCache,  \* requestCache: cache key -> { data, timestamp }
  rqCalls,  \* the calls of the generated request methods, in order
  rqBackend,\* how many times the backend (mock or axios) was invoked
  rqAbort,  \* the abortController of each cancelable request
  cleared,  \* the last call of clearCache: its argument and the cache before
  demo,     \* CacheDemo: loading, the call testCache is at, its results
  user,     \* state.user of the store: data, loading, error
  thunks,   \* the fetchUser / updateUser thunks dispatched, in order
  timer,    \* UseRefTimerDemo: timerRef, the intervals set, count, isRunning
  counter   \* state.counter of the store: value, history, step

\* the variables of the SSR server and its page loads
ssrVars == <<now, reqs, mount, page, asmIn, asmOut>>

\* the variables of the /api/hello route
apiVars == <<apiReq, apiResp>>

\* the variables of the request module (src/api)
rqVars == <<rpIn, rpOut, rqClock, rqCache, rqCalls, rqBackend, rqAbort>>

\* the variables of the demo pages and of the store
demoVars == <<cleared, demo, user, thunks, timer, counter>>

\* everything outside the SSR server
ext == <<apiVars, rqVars, demoVars>>

vars == <<ssrVars, ext>>

(***************************************************************************)
(* Bounds                                                                  *)
(***************************************************************************)
MaxClock == 2
MaxReqs == 1
MaxMarkupLen == 3
MaxTitleLen == 1
MaxCalls == 2

(***************************************************************************)
(* Tokens                                                                  *)
(***************************************************************************)
T(s) == [t |-> s, n |-> 0]

\* new Date().toISOString() at clock value c
IsoTime(c) == [t |-> "iso-time", n |-> c]

\* the value of a parameter that was not passed
Undefined == <<[t |-> "undefined", n |-> -1]>>

WS == T("\n")
CommentOpen == T("<!--")
CommentClose == T("-->")
IdRoot == T("id=\"root\"")
DivOpenAttr == T("<div")
TagEnd == T(">")
DivOpen == T("<div>")
DivClose == T("</div>")
TitleOpen == T("<title>")
TitleClose == T("</title>")
StylesheetLink == T("<link rel=\"stylesheet\" href=\"/styles.css\">")
ScriptOpen == T("<script src=\"/bundle.js\">")
ScriptClose == T("</script>")
Doctype == T("<!DOCTYPE html>")

MountOpenTag == <<DivOpenAttr, IdRoot, TagEnd>>

(***************************************************************************)
(* String helpers                                                          *)
(***************************************************************************)
RECURSIVE TrimStart(_)
TrimStart(s) ==
  IF s # <<>> /\ Head(s) = WS THEN TrimStart(Tail(s)) ELSE s

RECURSIVE TrimEnd(_)
TrimEnd(s) ==
  IF s # <<>> /\ s[Len(s)] = WS THEN TrimEnd(SubSeq(s, 1, Len(s) - 1)) ELSE s

\* String.prototype.trim
Trim(s) == TrimEnd(TrimStart(s))

(***************************************************************************)
(* Template Assembler: renderTemplate({ appHtml, title = 'React SSR Demo' })*)
(***************************************************************************)
DefaultTitle == <<T("React SSR Demo")>>

\* <head>: the viewport and SEO metas are one token; the Open Graph title and
\* the <title> both interpolate title
TemplateHead(title) ==
  <<WS, Doctype, T("<html lang=\"zh-CN\">"), T("<head>"),
    T("<meta charset viewport description keywords>"),
    T("<meta property=\"og:title\" content=\"")>> \o title \o <<T("\">"),
    TitleOpen>> \o title \o <<TitleClose,
    StylesheetLink,
    CommentOpen, T("<link rel=\"preload\" href=\"/bundle.js\" as=\"script\">"),
    CommentClose,
    T("</head>")>>

\* <body>: a comment naming id="root", the mount point, the timestamp
\* comment, the client script
TemplateBody(appHtml, ts) ==
  <<T("<body>"),
    CommentOpen, IdRoot, T("is the mount point"), CommentClose>>
  \o MountOpenTag \o appHtml \o <<DivClose,
    CommentOpen, T("SSR rendered at:"), IsoTime(ts), CommentClose,
    ScriptOpen, ScriptClose,
    T("</body>"), T("</html>"), WS>>

renderTemplate_NoDefault(appHtml, titleArg, ts) ==
  Trim(TemplateHead(titleArg) \o TemplateBody(appHtml, ts))

renderTemplate_Escaping(appHtml, titleArg, ts) ==
  LET title == IF titleArg = Undefined THEN DefaultTitle ELSE titleArg
      esc == [i \in 1..Len(appHtml) |->
                IF appHtml[i] = T("<p>") THEN T("&lt;p&gt;") ELSE appHtml[i]]
  IN Trim(TemplateHead(title) \o TemplateBody(esc, ts))

renderTemplate_ScriptFirst(appHtml, titleArg, ts) ==
  LET title == IF titleArg = Undefined THEN DefaultTitle ELSE titleArg
  IN Trim(TemplateHead(title) \o <<T("<body>"), ScriptOpen, ScriptClose>>
          \o MountOpenTag \o appHtml \o <<DivClose,
             CommentOpen, T("SSR rendered at:"), IsoTime(ts), CommentClose,
             T("</body>"), T("</html>"), WS>>)

renderTemplate_StampInMount(appHtml, titleArg, ts) ==
  LET title == IF titleArg = Undefined THEN DefaultTitle ELSE titleArg
  IN Trim(TemplateHead(title)
          \o TemplateBody(appHtml \o <<CommentOpen, IsoTime(ts), CommentClose>>, ts))

renderTemplate(appHtml, titleArg, ts) ==
  LET title == IF titleArg = Undefined THEN DefaultTitle ELSE titleArg
  IN Trim(TemplateHead(title) \o TemplateBody(appHtml, ts))

(***************************************************************************)
(* Reading a document back: what document.getElementById('root') and the   *)
(* browser's parse of the document see.  Text between <!-- and --> is a    *)
(* comment and holds no element.                                           *)
(***************************************************************************)
\* the positions of doc that lie outside comments: every <!-- before them
\* is followed by a --> before them
Outside(doc) ==
  LET opens == {j \in 1..Len(doc) : doc[j] = CommentOpen}
      closes == {j \in 1..Len(doc) : doc[j] = CommentClose}
  IN {i \in 1..Len(doc) :
        /\ i \notin opens
        /\ i \notin closes
        /\ \A j \in opens : j < i => \E k \in closes : j < k /\ k < i}

InComment(doc, i) == i \notin Outside(doc)

MountOpenPositions(doc) ==
  {i \in Outside(doc) : i + 2 <= Len(doc) /\ SubSeq(doc, i, i + 2) = MountOpenTag}

HasMount(doc) == MountOpenPositions(doc) # {}

Min(S) == CHOOSE x \in S : \A y \in S : x <= y

\* position of the first token of the mount point's opening tag
MountOpenPos(doc) == Min(MountOpenPositions(doc))

\* position of the mount point's closing tag: the first </div> after the
\* opening tag with as many <div> as </div> between them; 0 when never closed
MountClosePos(doc) ==
  LET out == Outside(doc)
      from == MountOpenPos(doc) + 3
      opened(q) == Cardinality({j \in out : from <= j /\ j < q /\
                                  (doc[j] = DivOpen \/ doc[j] = DivOpenAttr)})
      closed(q) == Cardinality({j \in out : from <= j /\ j < q /\ doc[j] = DivClose})
      ends == {q \in out : from <= q /\ doc[q] = DivClose /\ opened(q) = closed(q)}
  IN IF ends = {} THEN 0 ELSE Min(ends)

\* the mount-point element's inner content
MountInner(doc) == SubSeq(doc, MountOpenPos(doc) + 3, MountClosePos(doc) - 1)

PositionsOf(doc, tok) == {i \in Outside(doc) : doc[i] = tok}

\* the text of the document's <title> element
TitleText(doc) ==
  LET o == Min(PositionsOf(doc, TitleOpen))
      c == Min({i \in PositionsOf(doc, TitleClose) : i > o})
  IN SubSeq(doc, o + 1, c - 1)

\* occurrences of a token sequence in a string, comments included
Occurrences(doc, pat) ==
  Cardinality({i \in 1..(Len(doc) - Len(pat) + 1) :
                  SubSeq(doc, i, i + Len(pat) - 1) = pat})

\* the document with the timestamp of its debugging comment blanked
StripTimestamp(doc) ==
  [i \in 1..Len(doc) |-> IF doc[i].t = "iso-time" THEN IsoTime(0) ELSE doc[i]]

TimestampPositions(doc) == {i \in 1..Len(doc) : doc[i].t = "iso-time"}

(***************************************************************************)
(* The shared App: route table and Views                                   *)
(***************************************************************************)
\* a URL is its pathname, split at "/", and its query string
Url(path, search) == [path |-> path, search |-> search]

Urls ==
  { Url(<<>>, ""), Url(<<"about">>, ""), Url(<<"counter">>, ""),
    Url(<<"About">>, ""), Url(<<"missing">>, ""), Url(<<"counter">>, "?tab=1") }

\* <Routes> of App, in the order written; "*" is the splat route
RouteTable ==
  << [segs |-> <<>>, splat |-> FALSE, view |-> "Home"],
     [segs |-> <<"about">>, splat |-> FALSE, view |-> "About"],
     [segs |-> <<"counter">>, splat |-> FALSE, view |-> "Counter"],
     [segs |-> <<>>, splat |-> TRUE, view |-> "NotFound"] >>

ConfiguredPatterns == {i \in 1..Len(RouteTable) : ~RouteTable[i].splat}

\* route paths are matched without regard to case
Lower(seg) == IF seg = "About" THEN "about" ELSE seg

PathMatches(route, pathname) ==
  \/ route.splat
  \/ /\ Len(route.segs) = Len(pathname)
     /\ \A i \in 1..Len(pathname) : Lower(route.segs[i]) = Lower(pathname[i])

MatchesConfigured(url) ==
  \E i \in ConfiguredPatterns : PathMatches(RouteTable[i], url.path)

MatchRoute_HomeFallback(url) ==
  IF MatchesConfigured(url)
  THEN RouteTable[Min({i \in ConfiguredPatterns : PathMatches(RouteTable[i], url.path)})].view
  ELSE "Home"

\* the View <Routes> selects for a location
MatchRoute(url) ==
  RouteTable[Min({i \in 1..Len(RouteTable) : PathMatches(RouteTable[i], url.path)})].view

\* the state a View's useState calls start from
InitialViewState ==
  [renderEnv |-> "server", hydrated |-> FALSE, renderTime |-> "pending",
   count |-> 0, isHydrated |-> FALSE, clickHistory |-> <<>>]

\* React escapes the text children of an element
EscapeText(text) ==
  [i \in 1..Len(text) |->
     IF text[i] = DivOpenAttr THEN T("&lt;div")
     ELSE IF text[i] = IdRoot THEN T("id=&quot;root&quot;")
     ELSE IF text[i] = TagEnd THEN T("&gt;")
     ELSE IF text[i] = DivClose THEN T("&lt;/div&gt;")
     ELSE IF text[i] = ScriptOpen THEN T("&lt;script src=&quot;/bundle.js&quot;&gt;")
     ELSE IF text[i] = ScriptClose THEN T("&lt;/script&gt;")
     ELSE text[i]]

Home(st) ==
  <<DivOpen,
    DivOpenAttr, T("class=\"ssr-indicator ssr-indicator--" \o st.renderEnv \o "\""), TagEnd,
    T(IF st.renderEnv = "server" THEN "SSR rendered" ELSE "client hydrated"),
    DivClose,
    DivClose>>

About(st) ==
  <<DivOpen,
    DivOpen, T("<pre>")>>
  \o EscapeText(MountOpenTag \o <<T("${html}"), DivClose, ScriptOpen, ScriptClose>>)
  \o <<T("</pre>"), DivClose,
    DivOpen, T(IF st.hydrated THEN "hydrated" ELSE "not hydrated"),
    T(st.renderTime), DivClose,
    DivClose>>

Counter(st) ==
  <<DivOpen,
    DivOpen, T(IF st.isHydrated THEN "hydrated - interactive" ELSE "waiting for hydration"),
    DivClose,
    DivOpen, T("<button>-</button>"), [t |-> "count", n |-> st.count],
    T("<button>+</button>"), DivClose,
    DivOpen, [t |-> "history", n |-> Len(st.clickHistory)], DivClose,
    DivClose>>

NotFound ==
  <<DivOpen, DivOpen, T("<h2>404</h2>"), T("<p>"), T("page does not exist"), T("</p>"),
    DivClose, DivClose>>

RenderView(view, st) ==
  CASE view = "Home" -> Home(st)
    [] view = "About" -> About(st)
    [] view = "Counter" -> Counter(st)
    [] view = "NotFound" -> NotFound

\* the markup of <App /> under a router at location url
App(url, st) ==
  <<DivOpenAttr, T("class=\"app\""), TagEnd, T("<header>"), T("</header>"), T("<main>")>>
  \o RenderView(MatchRoute(url), st)
  \o <<T("</main>"), T("<footer>"), T("</footer>"), DivClose>>

(***************************************************************************)
(* Render Server: app.get('*', handler)                                    *)
(***************************************************************************)
PageTitle == <<T("React SSR teaching demo")>>

\* the messages of the errors a render can throw
ErrorMessages == { <<T("render failed")>>, <<T("out of memory")>> }

\* ReactDOMServer.renderToString(<StaticRouter location={req.url}><App />)
renderToString(url) == App(url, InitialViewState)

\* the inline error page of the catch block (the template literal is not trimmed)
ErrorPage(msg) ==
  <<WS, Doctype, T("<html>"), T("<head>"), T("<meta charset=\"UTF-8\">"),
    TitleOpen, T("server error"), TitleClose, T("</head>"),
    T("<body>"), T("<h1>server render error</h1>"),
    T("<pre>")>> \o msg \o <<T("</pre>"), T("</body>"), T("</html>"), WS>>

NoResponse == [status |-> 0, body |-> <<>>, trace |-> <<>>]

TryBlock_EarlyFlush(appHtml, ts) ==
  [status |-> 200,
   body |-> renderTemplate(appHtml, PageTitle, ts),
   trace |-> <<"write", "renderToString", "renderTemplate", "status", "send">>]

TryBlock_RenderStamped(appHtml, ts) ==
  [status |-> 200,
   body |-> renderTemplate(appHtml \o <<IsoTime(ts)>>, PageTitle, ts),
   trace |-> <<"renderToString", "renderTemplate", "status", "send">>]

TryBlock_Raw(appHtml, ts) ==
  [status |-> 200,
   body |-> appHtml,
   trace |-> <<"renderToString", "status", "send">>]

TryBlock_TwoMounts(appHtml, ts) ==
  [status |-> 200,
   body |-> renderTemplate(MountOpenTag \o appHtml \o <<DivClose>>, PageTitle, ts),
   trace |-> <<"renderToString", "renderTemplate", "status", "send">>]

\* the try block once renderToString has returned appHtml
TryBlock(appHtml, ts) ==
  [status |-> 200,
   body |-> renderTemplate(appHtml, PageTitle, ts),
   trace |-> <<"renderToString", "renderTemplate", "status", "send">>]

CatchBlock_Status200(msg) ==
  [status |-> 200,
   body |-> ErrorPage(msg),
   trace |-> <<"renderToString", "throw", "console.error", "status", "send">>]

CatchBlock_Retry(msg) ==
  [status |-> 500,
   body |-> ErrorPage(msg),
   trace |-> <<"renderToString", "throw", "console.error", "renderToString",
               "throw", "status", "send">>]

\* the catch block for an error with message msg thrown by renderToString
CatchBlock(msg) ==
  [status |-> 500,
   body |-> ErrorPage(msg),
   trace |-> <<"renderToString", "throw", "console.error", "status", "send">>]

ReqIds == 1..MaxReqs

NoReq == [pc |-> "none", url |-> Url(<<>>, ""), threw |-> FALSE, resp |-> NoResponse]

\* window.location: what the address bar holds (the fragment is never sent)
Address(url, hash) == [path |-> url.path, search |-> url.search, hash |-> hash]

\* a browser tab before its document has loaded; view, firstRender and st are
\* the View the client router selected, the markup of the first client render
\* and the state the View's hooks hold
NoPage ==
  [loaded |-> FALSE, scripts |-> 0, hydrateCalls |-> 0, hydratedFrom |-> "never",
   hash |-> "", address |-> Address(Url(<<>>, ""), ""),
   aborted |-> FALSE, logged |-> FALSE,
   view |-> "none", firstRender |-> <<>>, st |-> InitialViewState, effects |-> FALSE]

\* the mount point of the document a response carries
MountAfter(resp, before) ==
  IF HasMount(resp.body) /\ MountClosePos(resp.body) > 0 /\ MountInner(resp.body) # <<>>
  THEN "server-rendered"
  ELSE before

\* a GET request for url reaches the server (requests are numbered as they arrive)
Arrive(r, url) ==
  /\ reqs[r].pc = "none"
  /\ IF r = 1 THEN TRUE ELSE reqs[r - 1].pc = "done"
  /\ reqs' = [reqs EXCEPT ![r] = [NoReq EXCEPT !.pc = "pending", !.url = url]]
  /\ UNCHANGED <<now, mount, page, asmIn, asmOut, ext>>

\* the handler runs and renderToString returns
HandleRequest(r) ==
  /\ reqs[r].pc = "pending"
  /\ LET resp == TryBlock(renderToString(reqs[r].url), now)
     IN /\ reqs' = [reqs EXCEPT ![r].pc = "done", ![r].resp = resp]
        /\ mount' = [mount EXCEPT ![r] = MountAfter(resp, mount[r])]
  /\ UNCHANGED <<now, page, asmIn, asmOut, ext>>

\* the handler runs and renderToString throws
HandleRequestThrow(r, msg) ==
  /\ reqs[r].pc = "pending"
  /\ LET resp == CatchBlock(msg)
     IN /\ reqs' = [reqs EXCEPT ![r].pc = "done", ![r].threw = TRUE, ![r].resp = resp]
        /\ mount' = [mount EXCEPT ![r] = MountAfter(resp, mount[r])]
  /\ UNCHANGED <<now, page, asmIn, asmOut, ext>>

Tick ==
  /\ now < MaxClock
  /\ now' = now + 1
  /\ UNCHANGED <<reqs, mount, page, asmIn, asmOut, ext>>

(***************************************************************************)
(* Browser: the page load and the client entry (client/index.jsx)          *)
(***************************************************************************)
\* the <script src="/bundle.js"> elements of a document
ScriptCount(doc) == Cardinality(PositionsOf(doc, ScriptOpen))

\* the browser parses the response document
LoadDocument(r) ==
  /\ reqs[r].pc = "done"
  /\ ~page[r].loaded
  /\ page' = [page EXCEPT ![r].loaded = TRUE,
                          ![r].address = Address(reqs[r].url, page[r].hash),
                          ![r].scripts = ScriptCount(reqs[r].resp.body)]
  /\ UNCHANGED <<now, reqs, mount, asmIn, asmOut, ext>>

\* <BrowserRouter> reads its location off window.location; <Routes> matches
\* the pathname only
BrowserRouterLocation_Hash(address) ==
  Url(IF address.hash = "" THEN <<>> ELSE <<address.hash>>, "")

BrowserRouterLocation(address) == Url(address.path, address.search)

\* the state the useState calls of a View start from, in the environment env
\* ("server" or "client") the render runs in: the literals do not look at it
UseStateInitial_EnvDependent(env) == [InitialViewState EXCEPT !.renderEnv = env]

UseStateInitial(env) == InitialViewState

\* hydrateRoot(container, <BrowserRouter><App /></BrowserRouter>): rejects a
\* container that is not a DOM element by throwing, else renders App for the
\* first time over the server's DOM and attaches the event handlers
hydrateRoot(pg, mnt, present) ==
  IF ~present
  THEN [page |-> [pg EXCEPT !.hydrateCalls = pg.hydrateCalls + 1,
                            !.hydratedFrom = "absent",
                            !.aborted = TRUE],
        mount |-> mnt]
  ELSE [page |-> [pg EXCEPT !.hydrateCalls = pg.hydrateCalls + 1,
                            !.hydratedFrom = mnt,
                            !.view = MatchRoute(BrowserRouterLocation(pg.address)),
                            !.firstRender = App(BrowserRouterLocation(pg.address),
                                                UseStateInitial("client")),
                            !.st = UseStateInitial("client")],
        mount |-> "hydrated"]

ClientEntry_Rerun(pg, mnt, doc) ==
  LET out == hydrateRoot(pg, mnt, HasMount(doc))
  IN [page |-> [out.page EXCEPT !.logged = ~out.page.aborted],
      mount |-> out.mount]

\* the module body of the client entry, run once for each script element:
\* container = document.getElementById('root'); hydrateRoot(container, ...);
\* console.log(...). No statement tests container; an error hydrateRoot
\* throws is uncaught and ends the module before its console.log
ClientEntry(pg, mnt, doc) ==
  LET out == hydrateRoot([pg EXCEPT !.scripts = pg.scripts - 1], mnt, HasMount(doc))
  IN [page |-> [out.page EXCEPT !.logged = ~out.page.aborted],
      mount |-> out.mount]

RunClientEntry(r) ==
  /\ page[r].loaded
  /\ page[r].scripts > 0
  /\ LET out == ClientEntry(page[r], mount[r], reqs[r].resp.body)
     IN /\ page' = [page EXCEPT ![r] = out.page]
        /\ mount' = [mount EXCEPT ![r] = out.mount]
  /\ UNCHANGED <<now, reqs, asmIn, asmOut, ext>>

(***************************************************************************)
(* Specifications                                                          *)
(***************************************************************************)
NoInput == [appHtml |-> <<>>, title |-> Undefined]

NoApiRequest == [method |-> "none", query |-> <<>>, body |-> <<>>]

\* clearCache not called yet
NoCleared == [calls |-> 0, pattern |-> <<>>, before |-> {}]

\* CacheDemo: useState([]) and useState(false); step is the call of testCache
\* that comes next (0: testCache is not running)
DemoInitial ==
  [loading |-> FALSE, step |-> 0, runs |-> 0, newResults |-> <<>>, results |-> <<>>]

\* state.user.data === null
NoUser == [id |-> -1, name |-> "", updated |-> FALSE]

\* state.user.error === null
NoError == "null"

\* initialState of the user slice
UserInitialState == [data |-> NoUser, loading |-> FALSE, error |-> NoError]

\* UseRefTimerDemo: useState(0), useState(false), useRef(null); ref 0 is null
TimerInitial ==
  [count |-> 0, isRunning |-> FALSE, ref |-> 0, active |-> {}, nextId |-> 1,
   mounted |-> TRUE, last |-> "none", held |-> FALSE]

\* initialState of the counter slice
CounterInitialState == [value |-> 0, history |-> <<>>, step |-> 1]

\* the demo pages and the store at rest
DemoIdle ==
  /\ cleared = NoCleared
  /\ demo = DemoInitial
  /\ user = UserInitialState
  /\ thunks = <<>>
  /\ timer = TimerInitial
  /\ counter = CounterInitialState

\* a JSON object of the route's responses: has names the fields it carries
NoJson ==
  [has |-> {}, message |-> <<>>, timestamp |-> T("none"), method |-> "",
   description |-> "", received |-> [none |-> TRUE], processed |-> FALSE,
   error |-> ""]

NoApiResponse == [status |-> 0, json |-> NoJson]

NoReplaceInput == [url |-> <<>>, params |-> <<>>]

NoReplaceOutput == [called |-> FALSE, url |-> <<>>, params |-> <<>>]

\* the /api/hello route at rest
ApiIdle ==
  /\ apiReq = NoApiRequest
  /\ apiResp = NoApiResponse

\* the request module at rest
RqIdle ==
  /\ rpIn = NoReplaceInput
  /\ rpOut = NoReplaceOutput
  /\ rqClock = 0
  /\ rqCache = {}
  /\ rqCalls = <<>>
  /\ rqBackend = 0
  /\ rqAbort = [current |-> {}, aborted |-> {}]

\* the other subsystems at rest
ExtIdle == ApiIdle /\ RqIdle /\ DemoIdle

\* the SSR server at rest (the other subsystems' specifications start here)
SsrIdle ==
  /\ now = 0
  /\ reqs = [r \in ReqIds |-> NoReq]
  /\ mount = [r \in ReqIds |-> "unrendered"]
  /\ page = [r \in ReqIds |-> NoPage]
  /\ asmIn = NoInput
  /\ asmOut = <<>>

Init ==
  /\ now = 0
  /\ reqs = [r \in ReqIds |-> NoReq]
  /\ mount = [r \in ReqIds |-> "unrendered"]
  /\ page = [r \in ReqIds |-> NoPage]
  /\ asmIn = NoInput
  /\ asmOut = <<>>
  /\ ExtIdle

\* the server with a render call that may throw
Next ==
  \/ \E r \in ReqIds, u \in Urls : Arrive(r, u)
  \/ \E r \in ReqIds : HandleRequest(r)
  \/ \E r \in ReqIds, msg \in ErrorMessages : HandleRequestThrow(r, msg)
  \/ \E r \in ReqIds : LoadDocument(r)
  \/ \E r \in ReqIds : RunClientEntry(r)
  \/ Tick

Spec == Init /\ [][Next]_vars

\* the server rendering the repository's own Views, none of which throws
NextViews ==
  \/ \E r \in ReqIds, u \in Urls : Arrive(r, u)
  \/ \E r \in ReqIds : HandleRequest(r)
  \/ \E r \in ReqIds : LoadDocument(r)
  \/ \E r \in ReqIds : RunClientEntry(r)
  \/ Tick

SpecViews == Init /\ [][NextViews]_vars

\* the server alone, answering several requests one after the other
MaxServerReqs == 2

ServerReqIds == 1..MaxServerReqs

ServerUrls == { Url(<<>>, ""), Url(<<"about">>, ""), Url(<<"missing">>, "") }

InitServer ==
  /\ now = 0
  /\ reqs = [r \in ServerReqIds |-> NoReq]
  /\ mount = [r \in ServerReqIds |-> "unrendered"]
  /\ page = [r \in ServerReqIds |-> NoPage]
  /\ asmIn = NoInput
  /\ asmOut = <<>>
  /\ ExtIdle

NextServer ==
  \/ \E r \in ServerReqIds, u \in ServerUrls : Arrive(r, u)
  \/ \E r \in ServerReqIds : HandleRequest(r)
  \/ \E r \in ServerReqIds, msg \in ErrorMessages : HandleRequestThrow(r, msg)
  \/ Tick

SpecServer == InitServer /\ [][NextServer]_vars

(***************************************************************************)
(* renderTemplate used directly, on any Render Output and title            *)
(***************************************************************************)
SeqsUpTo(S, n) == UNION {[1..k -> S] : k \in 0..n}

MarkupAlphabet == {DivOpen, DivClose, T("<p>"), T("</p>"), T("X")}

IsOpenTag(x) == x = DivOpen \/ x = T("<p>")
IsCloseTag(x) == x = DivClose \/ x = T("</p>")
CloseOf(x) == IF x = DivOpen THEN DivClose ELSE T("</p>")

\* every tag of s is closed, in order (stack: the closing tags still owed)
RECURSIVE BalancedFrom(_, _, _)
BalancedFrom(s, i, stack) ==
  IF i > Len(s) THEN stack = <<>>
  ELSE IF IsOpenTag(s[i]) THEN BalancedFrom(s, i + 1, <<CloseOf(s[i])>> \o stack)
  ELSE IF IsCloseTag(s[i])
       THEN stack # <<>> /\ Head(stack) = s[i] /\ BalancedFrom(s, i + 1, Tail(stack))
  ELSE BalancedFrom(s, i + 1, stack)

Balanced(s) == BalancedFrom(s, 1, <<>>)

\* Render Outputs: serialised element trees, and the markup of the Views
Markups ==
  {m \in SeqsUpTo(MarkupAlphabet, MaxMarkupLen) : Balanced(m)}
  \cup {renderToString(u) : u \in Urls}

Titles == {Undefined} \cup SeqsUpTo({T("T"), T("U")}, MaxTitleLen)

InitAssemble ==
  /\ now = 0
  /\ reqs = [r \in ReqIds |-> NoReq]
  /\ mount = [r \in ReqIds |-> "unrendered"]
  /\ page = [r \in ReqIds |-> NoPage]
  /\ asmIn \in [appHtml : Markups, title : Titles]
  /\ asmOut = <<>>
  /\ ExtIdle

CallRenderTemplate ==
  /\ Len(asmOut) < MaxCalls
  /\ asmOut' = Append(asmOut, renderTemplate(asmIn.appHtml, asmIn.title, now))
  /\ UNCHANGED <<now, reqs, mount, page, asmIn, ext>>

NextAssemble ==
  \/ CallRenderTemplate
  \/ Tick

SpecAssemble == InitAssemble /\ [][NextAssemble]_vars

Docs == {asmOut[i] : i \in 1..Len(asmOut)}

(***************************************************************************)
(* A browser tab from the moment its response has arrived                  *)
(***************************************************************************)
MaxCount == 2

\* the fragments of the addresses the tab is opened at
Hashes == {"", "about"}

\* documents that load /bundle.js and hold no element with id "root" (the
\* second names the id in a comment only)
HostDocuments ==
  { <<Doctype, T("<html>"), T("<body>"), ScriptOpen, ScriptClose,
      T("</body>"), T("</html>")>>,
    <<Doctype, T("<html>"), T("<body>"), CommentOpen, IdRoot, CommentClose,
      DivOpen, DivClose, ScriptOpen, ScriptClose, T("</body>"), T("</html>")>> }

\* what the tab can have received for url: the handler's response, in both of
\* its outcomes, or a document without mount point
ResponsesFor(url) ==
  { [pc |-> "done", url |-> url, threw |-> FALSE,
     resp |-> TryBlock(renderToString(url), 0)] }
  \cup { [pc |-> "done", url |-> url, threw |-> TRUE, resp |-> CatchBlock(msg)] :
           msg \in ErrorMessages }
  \cup { [pc |-> "done", url |-> url, threw |-> FALSE,
          resp |-> [status |-> 200, body |-> d, trace |-> <<>>]] :
           d \in HostDocuments }

\* one tab: tabs share nothing
ClientTabs == {1}

InitClient ==
  /\ now = 0
  /\ \E u \in Urls, h \in Hashes :
       \E rq \in ResponsesFor(u) :
         /\ reqs = [r \in ClientTabs |-> rq]
         /\ mount = [r \in ClientTabs |-> MountAfter(rq.resp, "unrendered")]
         /\ page = [r \in ClientTabs |-> [NoPage EXCEPT !.hash = h]]
  /\ asmIn = NoInput
  /\ asmOut = <<>>
  /\ ExtIdle

\* the state a View's useEffect callback leaves (it runs once, after the commit)
EffectState(view, st) ==
  CASE view = "Home" -> [st EXCEPT !.renderEnv = "client"]
    [] view = "About" -> [st EXCEPT !.hydrated = TRUE, !.renderTime = "rendered"]
    [] view = "Counter" -> [st EXCEPT !.isHydrated = TRUE]
    [] OTHER -> st

RunEffects(r) ==
  /\ mount[r] = "hydrated"
  /\ ~page[r].effects
  /\ page[r].view \in {"Home", "About", "Counter"}
  /\ page' = [page EXCEPT ![r].effects = TRUE,
                          ![r].st = EffectState(page[r].view, page[r].st)]
  /\ UNCHANGED <<now, reqs, mount, asmIn, asmOut, ext>>

\* prev.slice(-4)
LastFour(h) == IF Len(h) <= 4 THEN h ELSE SubSeq(h, Len(h) - 3, Len(h))

\* the click handlers of Counter: increment, decrement, reset
ClickState(button, st) ==
  CASE button = "+" -> [st EXCEPT !.count = st.count + 1,
                                  !.clickHistory = Append(LastFour(st.clickHistory), "+1")]
    [] button = "-" -> [st EXCEPT !.count = st.count - 1,
                                  !.clickHistory = Append(LastFour(st.clickHistory), "-1")]
    [] button = "reset" -> [st EXCEPT !.count = 0, !.clickHistory = <<>>]

\* a click reaches a handler only once hydration has attached it
Click(r, button) ==
  /\ mount[r] = "hydrated"
  /\ page[r].view = "Counter"
  /\ button = "+" => page[r].st.count < MaxCount
  /\ button = "-" => page[r].st.count > -MaxCount
  /\ page' = [page EXCEPT ![r].st = ClickState(button, page[r].st)]
  /\ UNCHANGED <<now, reqs, mount, asmIn, asmOut, ext>>

NextClient ==
  \/ \E r \in ClientTabs : LoadDocument(r)
  \/ \E r \in ClientTabs : RunClientEntry(r)
  \/ \E r \in ClientTabs : RunEffects(r)
  \/ \E r \in ClientTabs, b \in {"+", "-", "reset"} : Click(r, b)

SpecClient == InitClient /\ [][NextClient]_vars

C7_EmptyMarkupDefaultTitle ==
  asmIn = NoInput =>
    \A doc \in Docs :
      /\ HasMount(doc)
      /\ MountInner(doc) = <<>>
      /\ TitleText(doc) = <<T("React SSR Demo")>>

C7_Witness == asmIn = NoInput /\ Len(asmOut) > 0

\* C8: in every document of renderTemplate the stylesheet link comes before
\* the mount-point element and the client script comes after it.
C8_StylesBeforeScriptAfter ==
  \A doc \in Docs :
    /\ PositionsOf(doc, StylesheetLink) # {}
    /\ PositionsOf(doc, ScriptOpen) # {}
    /\ \A i \in PositionsOf(doc, StylesheetLink) : i < MountOpenPos(doc)
    /\ MountClosePos(doc) > 0
    /\ \A i \in PositionsOf(doc, ScriptOpen) : i > MountClosePos(doc)

C8_Witness ==
  \E doc \in Docs : MountInner(doc) = renderToString(Url(<<"about">>, ""))

\* C9: two calls of renderTemplate with the same arguments return documents
\* that are equal once the timestamp is blanked; the timestamp lies after the
\* mount point's closing tag and the mount-point contents are equal.
C9_DeterministicButTimestamp ==
  \A d1 \in Docs, d2 \in Docs :
    /\ StripTimestamp(d1) = StripTimestamp(d2)
    /\ MountInner(d1) = MountInner(d2)
    /\ TimestampPositions(d1) # {}
    /\ \A i \in TimestampPositions(d1) : i > MountClosePos(d1)

C9_Witness ==
  \E d1 \in Docs, d2 \in Docs : d1 # d2 /\ MountInner(d1) # <<>>

(***************************************************************************)
(* Render Server properties                                                *)
(***************************************************************************)
Done == {r \in ReqIds : reqs[r].pc = "done"}

CountIn(seq, x) == Cardinality({i \in 1..Len(seq) : seq[i] = x})

\* doc is a value of renderTemplate: assembling what it holds gives it back
FromAssembler(doc) ==
  /\ HasMount(doc)
  /\ MountClosePos(doc) > 0
  /\ PositionsOf(doc, TitleOpen) # {}
  /\ \E i \in 1..Len(doc) :
       /\ doc[i].t = "iso-time"
       /\ doc = renderTemplate(MountInner(doc), TitleText(doc), doc[i].n)

\* doc is the handler's own minimal error document
MinimalErrorDocument(doc) ==
  /\ ~HasMount(doc)
  /\ PositionsOf(doc, ScriptOpen) = {}
  /\ PositionsOf(doc, StylesheetLink) = {}
  /\ Occurrences(doc, <<Doctype>>) = 1
  /\ \E msg \in ErrorMessages : Occurrences(doc, <<T("<pre>")>> \o msg \o <<T("</pre>")>>) = 1

\* C1 as stated: the body of every response of the page handler, success or
\* render failure, is a document produced by renderTemplate.
C1_EveryBodyFromAssembler ==
  \A r \in Done : FromAssembler(reqs[r].resp.body)

\* C1 as amended: the body of every 200 response is a document produced by
\* renderTemplate; the body of the 500 response of the render-failure path is
\* the handler's own inline error document, which renderTemplate did not
\* produce (no mount point, stylesheet link or script).
C1_SuccessFromAssemblerFailureInline ==
  \A r \in Done :
    /\ reqs[r].resp.status = 200 => FromAssembler(reqs[r].resp.body)
    /\ reqs[r].resp.status # 200 =>
         /\ reqs[r].threw
         /\ ~FromAssembler(reqs[r].resp.body)
         /\ MinimalErrorDocument(reqs[r].resp.body)

C1_Witness ==
  \E r \in Done :
    /\ reqs[r].resp.status = 500
    /\ reqs[r].resp.body = ErrorPage(<<T("render failed")>>)
    /\ ~FromAssembler(reqs[r].resp.body)

\* C2: a page request is answered 200 with the assembled document exactly when
\* the render call returned, 500 with the minimal error document exactly when
\* it threw, and with no other status.
C2_StatusFollowsRender ==
  \A r \in ReqIds :
    /\ reqs[r].pc # "done" => reqs[r].resp = NoResponse
    /\ reqs[r].pc = "done" =>
         /\ reqs[r].resp.status \in {200, 500}
         /\ reqs[r].resp.status = 200 <=> ~reqs[r].threw
         /\ reqs[r].resp.status = 500 <=> reqs[r].threw
         /\ ~reqs[r].threw =>
              /\ FromAssembler(reqs[r].resp.body)
              /\ MountInner(reqs[r].resp.body) = renderToString(reqs[r].url)
         /\ reqs[r].threw => MinimalErrorDocument(reqs[r].resp.body)

C2_Witness ==
  \E r \in Done :
    /\ reqs[r].threw
    /\ reqs[r].resp.status = 500
    /\ reqs[r].url = Url(<<"counter">>, "")

\* C3: a render failure ends its request: the handler calls renderToString
\* once, never again after it threw, renders and assembles nothing else, sends
\* the one 500 response, and the finished request is never handled again.
C3_FailedOnce ==
  \A r \in Done :
    reqs[r].threw =>
      /\ CountIn(reqs[r].resp.trace, "renderToString") = 1
      /\ CountIn(reqs[r].resp.trace, "renderTemplate") = 0
      /\ CountIn(reqs[r].resp.trace, "send") = 1
      /\ reqs[r].resp.trace[Len(reqs[r].resp.trace)] = "send"
      /\ reqs[r].resp.status = 500

C3_Final ==
  \A r \in ReqIds : reqs[r].pc = "done" => reqs'[r] = reqs[r]

C3_RenderFailureTerminal == [](C3_FailedOnce) /\ [][C3_Final]_vars

C3_Witness ==
  \E r \in Done : reqs[r].threw /\ page[r].loaded /\ page[r].hydrateCalls = 0

\* a complete document with one mount point, closed, inside its body
WellFormedDocument(doc) ==
  /\ doc # <<>>
  /\ doc[1] = Doctype
  /\ doc[Len(doc)] = T("</html>")
  /\ Cardinality(MountOpenPositions(doc)) = 1
  /\ MountClosePos(doc) > 0
  /\ Cardinality(PositionsOf(doc, TitleOpen)) = 1
  /\ Cardinality(PositionsOf(doc, T("<body>"))) = 1
  /\ \A i \in PositionsOf(doc, T("<body>")) :
       /\ i < MountOpenPos(doc)
       /\ \A j \in PositionsOf(doc, T("</head>")) : j < i
  /\ \A i \in PositionsOf(doc, T("</body>")) : i > MountClosePos(doc)

\* C4 as stated: for a path matching a configured route pattern the response
\* is 200 and its body holds the mount point's opening tag exactly once and
\* the text id="root" exactly once.
C4_OneMountTagOneIdRoot ==
  \A r \in Done :
    MatchesConfigured(reqs[r].url) =>
      /\ reqs[r].resp.status = 200
      /\ Occurrences(reqs[r].resp.body, MountOpenTag) = 1
      /\ Occurrences(reqs[r].resp.body, <<IdRoot>>) = 1

\* C4 as amended: for a path matching a configured route pattern the response
\* is 200 and its body holds the mount point's opening tag <div id="root">
\* exactly once, the only element with that id; the text id="root" occurs
\* exactly twice, the second time inside the HTML comment that precedes the
\* mount point.
C4_OneMountTagIdRootAlsoInComment ==
  \A r \in Done :
    MatchesConfigured(reqs[r].url) =>
      /\ reqs[r].resp.status = 200
      /\ Occurrences(reqs[r].resp.body, MountOpenTag) = 1
      /\ Cardinality(MountOpenPositions(reqs[r].resp.body)) = 1
      /\ Cardinality(PositionsOf(reqs[r].resp.body, IdRoot)) = 1
      /\ Occurrences(reqs[r].resp.body, <<IdRoot>>) = 2
      /\ \E i \in 1..Len(reqs[r].resp.body) :
           /\ reqs[r].resp.body[i] = IdRoot
           /\ InComment(reqs[r].resp.body, i)
           /\ i < MountOpenPos(reqs[r].resp.body)

C4_Witness ==
  \E r \in Done :
    /\ reqs[r].url = Url(<<"about">>, "")
    /\ Occurrences(reqs[r].resp.body, <<T("id=&quot;root&quot;")>>) = 1

\* C5: a path matching no configured route pattern raises no error: the
\* NotFound View is rendered and assembled like any other, and the response is
\* a well-formed document whose mount point holds the NotFound markup.
C5_NotFoundThroughPipeline ==
  \A r \in Done :
    ~MatchesConfigured(reqs[r].url) =>
      /\ ~reqs[r].threw
      /\ reqs[r].resp.status = 200
      /\ reqs[r].resp.trace = <<"renderToString", "renderTemplate", "status", "send">>
      /\ WellFormedDocument(reqs[r].resp.body)
      /\ FromAssembler(reqs[r].resp.body)
      /\ Occurrences(MountInner(reqs[r].resp.body), NotFound) = 1

C5_Witness ==
  \E r \in Done : reqs[r].url = Url(<<"missing">>, "") /\ page[r].loaded

(***************************************************************************)
(* Mount Point properties                                                  *)
(***************************************************************************)
C10_HydratedOnce ==
  \A r \in ReqIds :
    /\ page[r].hydrateCalls <= 1
    /\ page[r].hydrateCalls = 1 <=> mount[r] = "hydrated"
    /\ page[r].hydrateCalls = 1 => page[r].hydratedFrom = "server-rendered"
    /\ (page[r].loaded /\ page[r].scripts = 0 /\ reqs[r].resp.status = 200)
         => page[r].hydrateCalls = 1
    /\ mount[r] = "unrendered" => page[r].hydrateCalls = 0

C10_InOrder ==
  \A r \in ReqIds :
    mount'[r] # mount[r] =>
      \/ mount[r] = "unrendered" /\ mount'[r] = "server-rendered"
      \/ mount[r] = "server-rendered" /\ mount'[r] = "hydrated"

\* C10: the mount point only moves unrendered -> server-rendered -> hydrated;
\* hydrateRoot is called once per page load, on a server-rendered mount
\* point, never on an unrendered or an already hydrated one.
C10_MountPointOrder == [](C10_HydratedOnce) /\ [][C10_InOrder]_vars

C10_Witness ==
  \E r \in ReqIds : mount[r] = "hydrated" /\ page[r].hydrateCalls = 1

(***************************************************************************)
(* The /api/hello route handlers (app/api/hello/route.js)                  *)
(***************************************************************************)
MaxQueryLen == 2
MaxBodyLen == 5

\* the tokens of a request body
LBrace == T("{")
RBrace == T("}")
Colon == T(":")
StrName == T("\"name\"")
StrTest == T("\"test\"")

JsonAlphabet == {LBrace, RBrace, Colon, StrName, StrTest}

IsStringToken(tok) == tok = StrName \/ tok = StrTest

\* the string a string token denotes
Unquote(tok) == IF tok = StrName THEN "name" ELSE "test"

NoValue == [none |-> TRUE]

ParseFailure == [ok |-> FALSE, next |-> 0, value |-> NoValue]

\* JSON.parse from position i: a string, {} or an object of one member
RECURSIVE ParseValue(_, _)
ParseValue(s, i) ==
  IF i > Len(s) THEN ParseFailure
  ELSE IF IsStringToken(s[i])
       THEN [ok |-> TRUE, next |-> i + 1, value |-> [str |-> Unquote(s[i])]]
  ELSE IF s[i] # LBrace \/ i + 1 > Len(s) THEN ParseFailure
  ELSE IF s[i + 1] = RBrace
       THEN [ok |-> TRUE, next |-> i + 2, value |-> [members |-> 0]]
  ELSE IF i + 2 > Len(s) \/ ~IsStringToken(s[i + 1]) \/ s[i + 2] # Colon
       THEN ParseFailure
  ELSE LET v == ParseValue(s, i + 3)
       IN IF v.ok /\ v.next <= Len(s) /\ s[v.next] = RBrace
          THEN [ok |-> TRUE, next |-> v.next + 1,
                value |-> [key |-> Unquote(s[i + 1]), val |-> v.value]]
          ELSE ParseFailure

\* await request.json(): the value of the body, or a SyntaxError
RequestJson(body) ==
  LET v == ParseValue(body, 1)
  IN IF v.ok /\ v.next = Len(body) + 1 THEN v ELSE ParseFailure

\* searchParams.get(key): the value of the first pair named key, else null
SearchParamsGet(query, key) ==
  LET hits == {i \in 1..Len(query) : query[i].k = key}
  IN IF hits = {} THEN "null" ELSE query[Min(hits)].v

GET_NullishDefault(query, ts) ==
  LET got == SearchParamsGet(query, "name")
      name == IF got = "null" THEN "World" ELSE got
  IN [status |-> 200,
      json |-> [NoJson EXCEPT !.has = {"message", "timestamp", "method", "description"},
                              !.message = <<"Hello, ", name, "!">>,
                              !.timestamp = IsoTime(ts),
                              !.method = "GET",
                              !.description = "Next.js API Route example"]]

\* export async function GET(request)
GET(query, ts) ==
  LET got == SearchParamsGet(query, "name")
      name == IF got = "null" \/ got = "" THEN "World" ELSE got
  IN [status |-> 200,
      json |-> [NoJson EXCEPT !.has = {"message", "timestamp", "method", "description"},
                              !.message = <<"Hello, ", name, "!">>,
                              !.timestamp = IsoTime(ts),
                              !.method = "GET",
                              !.description = "Next.js API Route example"]]

POST_NoCatch(body, ts) ==
  [status |-> 201,
   json |-> [NoJson EXCEPT !.has = {"received", "processed", "timestamp", "method"},
                           !.received = RequestJson(body).value,
                           !.processed = TRUE,
                           !.timestamp = IsoTime(ts),
                           !.method = "POST"]]

\* export async function POST(request)
POST(body, ts) ==
  LET parsed == RequestJson(body)
  IN IF parsed.ok
     THEN [status |-> 201,
           json |-> [NoJson EXCEPT !.has = {"received", "processed", "timestamp", "method"},
                                   !.received = parsed.value,
                                   !.processed = TRUE,
                                   !.timestamp = IsoTime(ts),
                                   !.method = "POST"]]
     ELSE [status |-> 400,
           json |-> [NoJson EXCEPT !.has = {"error"}, !.error = "invalid JSON data"]]

QueryPairs == [k : {"name", "other"}, v : {"", "X", "test"}]

ApiRequests ==
  { [method |-> "GET", query |-> q, body |-> <<>>] :
      q \in SeqsUpTo(QueryPairs, MaxQueryLen) }
  \cup { [method |-> "POST", query |-> <<>>, body |-> b] :
           b \in SeqsUpTo(JsonAlphabet, MaxBodyLen) }

InitApi ==
  /\ SsrIdle
  /\ apiReq \in ApiRequests
  /\ apiResp = NoApiResponse
  /\ RqIdle
  /\ DemoIdle

HandleGET ==
  /\ apiReq.method = "GET"
  /\ apiResp = NoApiResponse
  /\ apiResp' = GET(apiReq.query, now)
  /\ UNCHANGED <<ssrVars, apiReq, rqVars, demoVars>>

HandlePOST ==
  /\ apiReq.method = "POST"
  /\ apiResp = NoApiResponse
  /\ apiResp' = POST(apiReq.body, now)
  /\ UNCHANGED <<ssrVars, apiReq, rqVars, demoVars>>

NextApi ==
  \/ HandleGET
  \/ HandlePOST
  \/ Tick

SpecApi == InitApi /\ [][NextApi]_vars

\* the JSON texts over the alphabet, built from the grammar, with the value
\* each denotes: a string, {} or { string : value }
JsonBase ==
  { [text |-> <<tok>>, value |-> [str |-> Unquote(tok)]] : tok \in {StrName, StrTest} }
  \cup { [text |-> <<LBrace, RBrace>>, value |-> [members |-> 0]] }

JsonWrap(inner) ==
  { [text |-> <<LBrace, tok, Colon>> \o j.text \o <<RBrace>>,
     value |-> [key |-> Unquote(tok), val |-> j.value]] :
      tok \in {StrName, StrTest}, j \in inner }

JsonTexts == JsonBase \cup JsonWrap(JsonBase) \cup JsonWrap(JsonWrap(JsonBase))

IsJsonText(body) == \E j \in JsonTexts : j.text = body

JsonValueOf(body) == (CHOOSE j \in JsonTexts : j.text = body).value

\* C15: POST /api/hello with a body that is a JSON text answers 201 with a
\* JSON object whose received field is the value the body denotes; with any
\* other body it answers 400 with an object holding an error field (and no
\* received field), never 201.
C15_PostCreatedOrBadRequest ==
  (apiReq.method = "POST" /\ apiResp # NoApiResponse) =>
    IF IsJsonText(apiReq.body)
    THEN /\ apiResp.status = 201
         /\ "received" \in apiResp.json.has
         /\ apiResp.json.received = JsonValueOf(apiReq.body)
    ELSE /\ apiResp.status = 400
         /\ "error" \in apiResp.json.has
         /\ "received" \notin apiResp.json.has

C15_Witness ==
  /\ apiReq.method = "POST"
  /\ apiReq.body = <<LBrace, StrName, Colon, StrTest, RBrace>>
  /\ apiResp.status = 201
  /\ apiResp.json.received = [key |-> "name", val |-> [str |-> "test"]]

\* C16: GET /api/hello answers a JSON object with message, timestamp and method
\* fields, method 'GET' and message 'Hello, X!' for the first name parameter X
\* of the query, 'Hello, World!' when there is no name parameter or it is empty.
C16_GetGreeting ==
  (apiReq.method = "GET" /\ apiResp # NoApiResponse) =>
    LET names == {i \in 1..Len(apiReq.query) : apiReq.query[i].k = "name"}
        x == IF names = {} THEN "" ELSE apiReq.query[Min(names)].v
    IN /\ {"message", "timestamp", "method"} \subseteq apiResp.json.has
       /\ apiResp.json.method = "GET"
       /\ apiResp.json.timestamp.t = "iso-time"
       /\ apiResp.json.timestamp.n <= now
       /\ apiResp.json.message = <<"Hello, ", IF x = "" THEN "World" ELSE x, "!">>

C16_Witness ==
  /\ apiReq.method = "GET"
  /\ apiReq.query = <<[k |-> "other", v |-> "X"], [k |-> "name", v |-> ""]>>
  /\ apiResp.json.message = <<"Hello, ", "World", "!">>

(***************************************************************************)
(* The request module (src/api/request.js): replaceUrlParams               *)
(***************************************************************************)
MaxUrlLen == 3
MaxParams == 2

\* a URL is its path segments: literal text, or a placeholder ":name"; a
\* replaced placeholder is the text put in its place, then whatever of the
\* segment the placeholder did not cover
Lit(text) == [kind |-> "lit", name |-> text, tail |-> ""]
Param(name) == [kind |-> "param", name |-> name, tail |-> ""]
Text(value, tail) == [kind |-> "text", name |-> value, tail |-> tail]

ParamKeys == {"id", "idx", "page"}

\* what follows ":" \o key in the segment ":" \o name, when the segment starts
\* with it: ":idx" starts with ":id" and "x" follows
RestAfter(key, name) ==
  IF key = name THEN ""
  ELSE IF key = "id" /\ name = "idx" THEN "x"
  ELSE "no match"

\* finalUrl.includes(":" \o key): the positions whose text contains it
Including(url, key) ==
  {i \in 1..Len(url) : url[i].kind = "param" /\ RestAfter(key, url[i].name) # "no match"}

\* finalUrl.replace(":" \o key, value): a string pattern replaces the first
\* occurrence only
ReplaceFirst(url, key, value) ==
  LET i == Min(Including(url, key))
  IN [url EXCEPT ![i] = Text(value, RestAfter(key, url[i].name))]

\* Object.keys(params).forEach(...) from the n-th key on
RECURSIVE ReplaceFrom(_, _, _, _)
ReplaceFrom(url, params, n, used) ==
  IF n > Len(params) THEN [url |-> url, used |-> used]
  ELSE IF Including(url, params[n].k) # {}
       THEN ReplaceFrom(ReplaceFirst(url, params[n].k, params[n].v), params, n + 1,
                        used \cup {params[n].k})
  ELSE ReplaceFrom(url, params, n + 1, used)

\* the members of params whose key is not in used, in their order
RECURSIVE Without(_, _)
Without(params, used) ==
  IF params = <<>> THEN <<>>
  ELSE IF Head(params).k \in used THEN Without(Tail(params), used)
  ELSE <<Head(params)>> \o Without(Tail(params), used)

\* replaceUrlParams(url, params) => { url: finalUrl, params: remainingParams }
replaceUrlParams(url, params) ==
  LET done == ReplaceFrom(url, params, 1, {})
  IN [url |-> done.url, params |-> Without(params, done.used)]

UrlSegments == {Lit("api"), Lit("user"), Param("id"), Param("idx"), Param("page")}

\* params objects: members in insertion order, no key twice
ParamObjects ==
  {ps \in SeqsUpTo([k : ParamKeys, v : {"123", "7"}], MaxParams) :
     \A i \in 1..Len(ps), j \in 1..Len(ps) : i # j => ps[i].k # ps[j].k}

InitReplace ==
  /\ SsrIdle
  /\ ApiIdle
  /\ DemoIdle
  /\ rpIn \in [url : SeqsUpTo(UrlSegments, MaxUrlLen), params : ParamObjects]
  /\ rpOut = NoReplaceOutput
  /\ rqClock = 0
  /\ rqCache = {}
  /\ rqCalls = <<>>
  /\ rqBackend = 0
  /\ rqAbort = [current |-> {}, aborted |-> {}]

CallReplaceUrlParams ==
  /\ ~rpOut.called
  /\ LET out == replaceUrlParams(rpIn.url, rpIn.params)
     IN rpOut' = [called |-> TRUE, url |-> out.url, params |-> out.params]
  /\ UNCHANGED <<ssrVars, apiVars, demoVars, rpIn, rqClock, rqCache, rqCalls, rqBackend, rqAbort>>

NextReplace == CallReplaceUrlParams

SpecReplace == InitReplace /\ [][NextReplace]_vars

KeysOf(params) == {params[i].k : i \in 1..Len(params)}

IndexOfKey(params, key) == (CHOOSE i \in 1..Len(params) : params[i].k = key)

\* C18: in the URL replaceUrlParams returns, every placeholder whose name is a
\* key of params has become that parameter's value and every other segment is
\* as it was; the parameters it returns are those of params whose key names
\* no placeholder of the URL, unchanged and in their order.
C18_EveryPlaceholderReplaced ==
  rpOut.called =>
    LET named == {rpIn.url[i].name : i \in {j \in 1..Len(rpIn.url) : rpIn.url[j].kind = "param"}}
    IN /\ Len(rpOut.url) = Len(rpIn.url)
       /\ \A i \in 1..Len(rpIn.url) :
            IF rpIn.url[i].kind = "param" /\ rpIn.url[i].name \in KeysOf(rpIn.params)
            THEN rpOut.url[i] =
                   Text(rpIn.params[IndexOfKey(rpIn.params, rpIn.url[i].name)].v, "")
            ELSE rpOut.url[i] = rpIn.url[i]
       /\ rpOut.params = Without(rpIn.params, named)

(***************************************************************************)
(* The request module: createRequest, requestCache, createCancelableRequest*)
(***************************************************************************)
MaxRqCalls == 2
MaxRqTicks == 3

\* the step of the clock, in ms
TickMs == 2500

CACHE_TIME == 5000

\* baseConfig.enableMock and baseConfig.mockDelay
EnableMock == TRUE
MockDelay == 500

\* the entries of apiConfigs the calls go to
ApiConfig(name) ==
  CASE name = "getUserById" ->
         [url |-> <<Lit("api"), Lit("user"), Param("id")>>, method |-> "get", mock |-> TRUE]
    [] name = "deleteUser" ->
         [url |-> <<Lit("api"), Lit("user"), Param("id")>>, method |-> "delete", mock |-> TRUE]
    [] name = "getArticleList" ->
         [url |-> <<Lit("api"), Lit("articles")>>, method |-> "get", mock |-> TRUE]
    [] name = "getProductList" ->
         [url |-> <<Lit("api"), Lit("products")>>, method |-> "get", mock |-> TRUE]

\* method.toLowerCase() === 'get'
IsGet(method) == method = "get" \/ method = "GET"

\* `${method}:${finalUrl}:${JSON.stringify(remainingParams)}`
CacheKey(api, params) ==
  LET r == replaceUrlParams(ApiConfig(api).url, params)
  IN [method |-> ApiConfig(api).method, url |-> r.url, params |-> r.params]

NoData == [api |-> "", n |-> 0]

\* requestCache.get(cacheKey), when it is there and Date.now() - timestamp < CACHE_TIME
FreshEntries_Inclusive(cache, key, clock) ==
  {e \in cache : e.key = key /\ clock - e.timestamp <= CACHE_TIME}

FreshEntries(cache, key, clock) ==
  {e \in cache : e.key = key /\ clock - e.timestamp < CACHE_TIME}

\* requestCache.set(cacheKey, { data, timestamp })
CacheSet(cache, key, data, clock) ==
  {e \in cache : e.key # key} \cup {[key |-> key, data |-> data, timestamp |-> clock]}

\* the method createRequest returns, up to its first await: the call it adds.
\* signal is the controller of the call (0: none); resolved is the set of
\* calls that have settled by now
NewCall(inp, via, signal) ==
  LET cfg == ApiConfig(inp.api)
      key == CacheKey(inp.api, inp.params)
      fresh == IF inp.useCache /\ IsGet(cfg.method)
               THEN FreshEntries(rqCache, key, rqClock)
               ELSE {}
      base == [api |-> inp.api, params |-> inp.params, useCache |-> inp.useCache,
               via |-> via, signal |-> signal, key |-> key, issued |-> rqClock,
               before |-> {i \in 1..Len(rqCalls) : rqCalls[i].status # "pending"},
               abortedPending |-> FALSE, doneSeq |-> 0, settled |-> 0]
  IN IF fresh # {}
     THEN base @@ [status |-> "resolved", source |-> "cache", n |-> 0, due |-> 0,
                   data |-> (CHOOSE e \in fresh : TRUE).data]
     ELSE base @@ [status |-> "pending",
                   source |-> IF EnableMock /\ cfg.mock THEN "mock" ELSE "axios",
                   n |-> rqBackend + 1,
                   due |-> rqClock + MockDelay,
                   data |-> NoData]

\* how many calls have settled
SettledCount == Cardinality({i \in 1..Len(rqCalls) : rqCalls[i].status # "pending"})

Settle(call) ==
  IF call.status = "pending" THEN call
  ELSE [call EXCEPT !.doneSeq = SettledCount + 1, !.settled = rqClock]

\* the calls the pages make through request.<name>(params, options)
RequestInputs ==
  { [api |-> "getUserById", params |-> <<[k |-> "id", v |-> "123"]>>, useCache |-> TRUE],
    [api |-> "getUserById", params |-> <<[k |-> "id", v |-> "7"]>>, useCache |-> TRUE],
    [api |-> "getUserById", params |-> <<[k |-> "id", v |-> "123"]>>, useCache |-> FALSE],
    [api |-> "getArticleList", params |-> <<>>, useCache |-> TRUE],
    [api |-> "deleteUser", params |-> <<[k |-> "id", v |-> "123"]>>, useCache |-> TRUE] }

\* the calls the search box makes through cancelableRequest.<name>.send(params)
SendInputs ==
  { [api |-> "getArticleList", params |-> <<[k |-> "keyword", v |-> "a"]>>, useCache |-> FALSE],
    [api |-> "getArticleList", params |-> <<[k |-> "keyword", v |-> "ab"]>>, useCache |-> FALSE] }

InitRequest ==
  /\ SsrIdle
  /\ ApiIdle
  /\ RqIdle
  /\ DemoIdle

\* request.<name>(params, { useCache })
Request(inp) ==
  /\ Len(rqCalls) < MaxRqCalls
  /\ LET call == Settle(NewCall(inp, "request", 0))
     IN /\ rqCalls' = Append(rqCalls, call)
        /\ rqBackend' = IF call.source = "cache" THEN rqBackend ELSE rqBackend + 1
  /\ UNCHANGED <<ssrVars, apiVars, demoVars, rpIn, rpOut, rqClock, rqCache, rqAbort>>

\* abortController.abort(): a pending axios call with that signal rejects; the
\* mock branch never looks at the signal
AbortCall(call, ctls) ==
  IF call.status # "pending" \/ call.signal \notin ctls THEN call
  ELSE IF call.source = "axios"
       THEN [call EXCEPT !.status = "rejected", !.abortedPending = TRUE,
                         !.doneSeq = SettledCount + 1, !.settled = rqClock]
  ELSE [call EXCEPT !.abortedPending = TRUE]

\* cancelableRequest.<name>.send(params): abort the controller of the last
\* send of this API, make a new one, call the request method with its signal
Send(inp) ==
  /\ Len(rqCalls) < MaxRqCalls
  /\ LET old == {c \in rqAbort.current : rqCalls[c].api = inp.api}
         ctl == Len(rqCalls) + 1
         aborted == [i \in 1..Len(rqCalls) |-> AbortCall(rqCalls[i], old)]
         call == Settle(NewCall(inp, "send", ctl))
     IN /\ rqCalls' = Append(aborted, call)
        /\ rqAbort' = [current |-> (rqAbort.current \ old) \cup {ctl},
                       aborted |-> rqAbort.aborted \cup old]
        /\ rqBackend' = IF call.source = "cache" THEN rqBackend ELSE rqBackend + 1
  /\ UNCHANGED <<ssrVars, apiVars, demoVars, rpIn, rpOut, rqClock, rqCache>>

StoresResult_Always(call) == TRUE

\* if (useCache && method.toLowerCase() === 'get') requestCache.set(...)
StoresResult(call) == call.useCache /\ IsGet(ApiConfig(call.api).method)

\* timers of equal delay fire in the order they were set
TimerReady(i) ==
  /\ rqClock >= rqCalls[i].due
  /\ ~\E j \in 1..(i - 1) : rqCalls[j].status = "pending" /\ rqCalls[j].source = "mock"

\* a pending call gets its result: the mock delay ends (handleMock returns
\* the mock data) or the axios promise resolves; a cacheable GET is stored
Complete(i) ==
  /\ i \in 1..Len(rqCalls)
  /\ rqCalls[i].status = "pending"
  /\ IF rqCalls[i].source = "mock" THEN TimerReady(i)
     ELSE rqCalls[i].signal \notin rqAbort.aborted
  /\ LET call == rqCalls[i]
         data == [api |-> call.api, n |-> call.n]
     IN /\ rqCalls' = [rqCalls EXCEPT ![i] =
                         [call EXCEPT !.status = "resolved", !.data = data,
                                      !.doneSeq = SettledCount + 1,
                                      !.settled = rqClock]]
        /\ rqCache' = IF StoresResult(call)
                      THEN CacheSet(rqCache, call.key, data, rqClock)
                      ELSE rqCache
  /\ UNCHANGED <<ssrVars, apiVars, demoVars, rpIn, rpOut, rqClock, rqBackend, rqAbort>>

\* time passes
Advance ==
  /\ rqClock < MaxRqTicks * TickMs
  /\ rqClock' = rqClock + TickMs
  /\ UNCHANGED <<ssrVars, apiVars, demoVars, rpIn, rpOut, rqCache, rqCalls, rqBackend, rqAbort>>

NextRequest ==
  \/ \E inp \in RequestInputs : Request(inp)
  \/ \E inp \in SendInputs : Send(inp)
  \/ \E i \in 1..MaxRqCalls : Complete(i)
  \/ Advance

SpecRequest == InitRequest /\ [][NextRequest]_vars

\* the calls that can be answered from, and stored in, the cache
Cacheable(i) == rqCalls[i].useCache /\ IsGet(ApiConfig(rqCalls[i].api).method)

\* the calls whose result was stored under the key of call j before j was made
StoresBefore(j) ==
  {i \in rqCalls[j].before :
     /\ Cacheable(i)
     /\ rqCalls[i].source # "cache"
     /\ rqCalls[i].status = "resolved"
     /\ rqCalls[i].key.method = rqCalls[j].key.method
     /\ rqCalls[i].key.url = rqCalls[j].key.url
     /\ rqCalls[i].key.params = rqCalls[j].key.params}

\* the last of them: its result is the entry
LastStore(j) ==
  CHOOSE i \in StoresBefore(j) :
    \A k \in StoresBefore(j) : rqCalls[k].doneSeq <= rqCalls[i].doneSeq

\* C19: a cacheable GET call made when no result is stored under its method,
\* final URL and remaining parameters, or when the stored entry is 5000 ms old
\* or older, invokes the backend; made less than 5000 ms after the entry was
\* stored it returns the stored data at once and the backend is not invoked.
C19_CacheFreshFor5000 ==
  /\ rqBackend = Cardinality({i \in 1..Len(rqCalls) : rqCalls[i].n > 0})
  /\ \A j \in 1..Len(rqCalls) :
       Cacheable(j) =>
         IF StoresBefore(j) # {}
            /\ rqCalls[j].issued - rqCalls[LastStore(j)].settled < 5000
         THEN /\ rqCalls[j].source = "cache"
              /\ rqCalls[j].status = "resolved"
              /\ rqCalls[j].data = rqCalls[LastStore(j)].data
              /\ rqCalls[j].n = 0
         ELSE /\ rqCalls[j].source # "cache"
              /\ rqCalls[j].n > 0

C19_Witness ==
  /\ Len(rqCalls) = 2
  /\ rqCalls[1].api = "getUserById" /\ rqCalls[2].api = "getUserById"
  /\ rqCalls[2].source = "cache"
  /\ rqCalls[2].issued - rqCalls[1].settled = 2500
  /\ rqBackend = 1

\* C23: a call with a non-GET method or without useCache is never answered
\* from the cache and always invokes the backend; the cache changes only in a
\* step in which a GET call made with useCache gets its result, and then only
\* by the entry of that call's key.
C23_Uncached ==
  \A i \in 1..Len(rqCalls) :
    ~Cacheable(i) => rqCalls[i].source # "cache" /\ rqCalls[i].n > 0

C23_CacheFrame ==
  rqCache' # rqCache =>
    \E i \in 1..Len(rqCalls) :
      /\ Cacheable(i)
      /\ rqCalls[i].status = "pending"
      /\ rqCalls'[i].status = "resolved"
      /\ {e \in rqCache' : e.key # rqCalls[i].key} = {e \in rqCache : e.key # rqCalls[i].key}

C23_CacheOnlyForCachedGet == [](C23_Uncached) /\ [][C23_CacheFrame]_vars

C23_Witness ==
  /\ Len(rqCalls) = 2
  /\ rqCalls[1].api = "getUserById" /\ rqCalls[1].useCache
  /\ rqCalls[2].key = rqCalls[1].key /\ ~rqCalls[2].useCache
  /\ rqCalls[1].status = "resolved" /\ rqCalls[2].status = "resolved"
  /\ rqCalls[2].issued = rqCalls[1].settled
  /\ rqCalls[2].source = "mock"
  /\ \E e \in rqCache : e.key = rqCalls[1].key /\ e.data = rqCalls[1].data

\* C20: a send() whose controller was aborted by a later send() of the same
\* API while it was pending never resolves with response data.
C20_SupersededSendNeverResolves ==
  \A i \in 1..Len(rqCalls) :
    rqCalls[i].abortedPending => rqCalls[i].status # "resolved"

(***************************************************************************)
(* The request module: clearCache                                          *)
(***************************************************************************)
MaxClears == 2

\* the text of a URL, segment by segment
RECURSIVE UrlText(_)
UrlText(url) ==
  IF url = <<>> THEN <<>>
  ELSE <<"/", Head(url).name>>
       \o (IF Head(url).tail = "" THEN <<>> ELSE <<Head(url).tail>>)
       \o UrlText(Tail(url))

\* the members of JSON.stringify(params), from the n-th on
RECURSIVE MembersText(_, _)
MembersText(params, n) ==
  IF n > Len(params) THEN <<>>
  ELSE (IF n > 1 THEN <<",">> ELSE <<>>)
       \o <<params[n].k, ":", params[n].v>>
       \o MembersText(params, n + 1)

\* the cache key as the string it is
KeyText(key) ==
  <<key.method, ":">> \o UrlText(key.url) \o <<":", "{">>
  \o MembersText(key.params, 1) \o <<"}">>

\* text.includes(pat)
Contains(text, pat) ==
  \E i \in 0..(Len(text) - Len(pat)) : SubSeq(text, i + 1, i + Len(pat)) = pat

clearCache_ClearsAll(cache, pattern) == {}

\* clearCache(pattern): without pattern (undefined, or '' which is falsy)
\* requestCache.clear(), else delete every key that includes it
clearCache(cache, pattern) ==
  IF ~pattern.given \/ pattern.text = <<>> THEN {}
  ELSE {e \in cache : ~Contains(KeyText(e.key), pattern.text)}

\* the arguments clearCache is called with
Patterns ==
  { [given |-> FALSE, text |-> <<>>],
    [given |-> TRUE, text |-> <<>>],
    [given |-> TRUE, text |-> <<"products">>],
    [given |-> TRUE, text |-> <<"user">>],
    [given |-> TRUE, text |-> <<"/", "user", "/", "123">>],
    [given |-> TRUE, text |-> <<"get", ":">>],
    [given |-> TRUE, text |-> <<"keyword", ":", "a">>],
    [given |-> TRUE, text |-> <<"orders">>] }

\* the keys of the entries cached GET calls have stored
KeyPool ==
  { CacheKey("getUserById", <<[k |-> "id", v |-> "123"]>>),
    CacheKey("getUserById", <<[k |-> "id", v |-> "7"]>>),
    CacheKey("getArticleList", <<[k |-> "keyword", v |-> "a"]>>),
    CacheKey("getProductList", <<>>) }

\* the caches those calls leave: one entry for a key, stored at some time
Caches ==
  LET pool == UNION {{CacheSet({}, key, [api |-> "", n |-> 1], t) :
                        t \in {0, TickMs}} : key \in KeyPool}
  IN {c \in SUBSET (UNION pool) :
        \A e1 \in c, e2 \in c : e1.key = e2.key => e1 = e2}

InitCache ==
  /\ SsrIdle
  /\ ApiIdle
  /\ DemoIdle
  /\ rpIn = NoReplaceInput
  /\ rpOut = NoReplaceOutput
  /\ rqClock = TickMs
  /\ rqCache \in Caches
  /\ rqCalls = <<>>
  /\ rqBackend = 0
  /\ rqAbort = [current |-> {}, aborted |-> {}]

ClearCache(pattern) ==
  /\ cleared.calls < MaxClears
  /\ cleared' = [calls |-> cleared.calls + 1, pattern |-> pattern, before |-> rqCache]
  /\ rqCache' = clearCache(rqCache, pattern)
  /\ UNCHANGED <<ssrVars, apiVars, rpIn, rpOut, rqClock, rqCalls, rqBackend, rqAbort,
                 demo, user, thunks, timer, counter>>

NextCache == \E pattern \in Patterns : ClearCache(pattern)

SpecCache == InitCache /\ [][NextCache]_vars

\* C21: after clearCache() the cache is empty; after clearCache(pattern) the
\* cache holds exactly the entries it held before whose key does not contain
\* the pattern, each with the data and timestamp it had.
C21_ClearCacheFrame ==
  cleared.calls > 0 =>
    IF ~cleared.pattern.given
    THEN rqCache = {}
    ELSE /\ rqCache \subseteq cleared.before
         /\ \A e \in cleared.before :
              e \in rqCache <=> ~Contains(KeyText(e.key), cleared.pattern.text)

C21_Witness ==
  /\ cleared.calls = 1
  /\ cleared.pattern = [given |-> TRUE, text |-> <<"user">>]
  /\ Cardinality(cleared.before) = 4
  /\ Cardinality(rqCache) = 2

(***************************************************************************)
(* CacheDemo: testCache and handleClearCache                               *)
(***************************************************************************)
MaxDemoRuns == 1

\* the three calls of testCache: request.getProductList(), then twice
\* request.getProductList({}, { useCache: true })
TestCacheCall(step) ==
  [api |-> "getProductList", params |-> <<>>, useCache |-> step > 1]

\* the entry testCache pushes after its call number step: cached is written
\* in the code, source is where the answer came from
TestCacheResult(step, call) ==
  [cached |-> step > 1, source |-> call.source]

InitCacheDemo ==
  /\ SsrIdle
  /\ ApiIdle
  /\ RqIdle
  /\ DemoIdle

\* click on the test button (disabled while loading): testCache runs up to
\* its first await
ClickTestCache ==
  /\ ~demo.loading
  /\ demo.runs < MaxDemoRuns
  /\ LET call == Settle(NewCall(TestCacheCall(1), "request", 0))
     IN /\ rqCalls' = Append(rqCalls, call)
        /\ rqBackend' = IF call.source = "cache" THEN rqBackend ELSE rqBackend + 1
  /\ demo' = [demo EXCEPT !.loading = TRUE, !.step = 1, !.runs = demo.runs + 1,
                          !.newResults = <<>>, !.results = <<>>]
  /\ UNCHANGED <<ssrVars, apiVars, rpIn, rpOut, rqClock, rqCache, rqAbort,
                 cleared, user, thunks, timer, counter>>

\* the awaited call has resolved: testCache pushes its entry and makes the
\* next call, or after the third shows the results
TestCacheContinue ==
  /\ demo.step > 0
  /\ rqCalls[Len(rqCalls)].status = "resolved"
  /\ LET entry == TestCacheResult(demo.step, rqCalls[Len(rqCalls)])
         call == Settle(NewCall(TestCacheCall(demo.step + 1), "request", 0))
     IN IF demo.step < 3
        THEN /\ rqCalls' = Append(rqCalls, call)
             /\ rqBackend' = IF call.source = "cache" THEN rqBackend ELSE rqBackend + 1
             /\ demo' = [demo EXCEPT !.step = demo.step + 1,
                                     !.newResults = Append(demo.newResults, entry)]
        ELSE /\ UNCHANGED <<rqCalls, rqBackend>>
             /\ demo' = [demo EXCEPT !.step = 0, !.loading = FALSE,
                                     !.newResults = Append(demo.newResults, entry),
                                     !.results = Append(demo.newResults, entry)]
  /\ UNCHANGED <<ssrVars, apiVars, rpIn, rpOut, rqClock, rqCache, rqAbort,
                 cleared, user, thunks, timer, counter>>

\* click on the clear button: clearCache(); setResults([])
ClickClearCache ==
  /\ cleared.calls < MaxClears
  /\ cleared' = [calls |-> cleared.calls + 1,
                 pattern |-> [given |-> FALSE, text |-> <<>>],
                 before |-> rqCache]
  /\ rqCache' = clearCache(rqCache, [given |-> FALSE, text |-> <<>>])
  /\ demo' = [demo EXCEPT !.results = <<>>]
  /\ UNCHANGED <<ssrVars, apiVars, rpIn, rpOut, rqClock, rqCalls, rqBackend, rqAbort,
                 user, thunks, timer, counter>>

NextCacheDemo ==
  \/ ClickTestCache
  \/ TestCacheContinue
  \/ \E i \in 1..(3 * MaxDemoRuns) : Complete(i)
  \/ ClickClearCache
  \/ Advance

SpecCacheDemo == InitCacheDemo /\ [][NextCacheDemo]_vars

\* C22: in a finished run of testCache only the first of its three calls
\* invoked the backend; the second and the third, which the demo shows as
\* cache hits, were answered from the cache.
C22_SecondAndThirdFromCache ==
  \A run \in 1..demo.runs :
    Len(rqCalls) >= 3 * run /\ (run < demo.runs \/ ~demo.loading) =>
      /\ rqCalls[3 * run - 2].source # "cache"
      /\ rqCalls[3 * run - 1].source = "cache"
      /\ rqCalls[3 * run].source = "cache"

(***************************************************************************)
(* userSlice: fetchUser, updateUser and the reducers                       *)
(***************************************************************************)
MaxThunks == 3

\* the two messages the payload creators throw, in translation
ZeroIdMessage == "user id must not be 0"
NeedUserMessage == "fetch the user first"

UserIds == {0, 1}
UserDatas == {[name |-> "edited"]}

\* the payload creator without its check of the id
fetchUser_NoZeroCheck(userId) ==
  [type |-> "fulfilled",
   payload |-> [id |-> userId, name |-> "fetched", updated |-> FALSE]]

\* payload creator of fetchUser, after its wait: the action the thunk ends with
fetchUser(userId) ==
  IF userId = 0
  THEN [type |-> "rejected", payload |-> ZeroIdMessage]
  ELSE [type |-> "fulfilled",
        payload |-> [id |-> userId, name |-> "fetched", updated |-> FALSE]]

\* payload creator of updateUser; currentUser is getState().user.data read
\* when the thunk starts
updateUser(currentUser, userData) ==
  IF currentUser = NoUser
  THEN [type |-> "rejected", payload |-> NeedUserMessage]
  ELSE [type |-> "fulfilled",
        payload |-> [currentUser EXCEPT !.name = userData.name, !.updated = TRUE]]

\* the pending, fulfilled and rejected cases, the same for both thunks
extraReducers(state, action) ==
  CASE action.type = "pending" ->
         [state EXCEPT !.loading = TRUE, !.error = NoError]
    [] action.type = "fulfilled" ->
         [state EXCEPT !.loading = FALSE, !.data = action.payload]
    [] action.type = "rejected" ->
         [state EXCEPT !.loading = FALSE,
                       !.error = IF action.payload # "" THEN action.payload
                                 ELSE "Rejected"]

\* clearUser, clearError, setUser
reducers(state, action) ==
  CASE action.type = "clearUser" -> [state EXCEPT !.data = NoUser, !.error = NoError]
    [] action.type = "clearError" -> [state EXCEPT !.error = NoError]
    [] action.type = "setUser" -> [state EXCEPT !.data = action.payload]

UserActions ==
  {[type |-> "clearUser", payload |-> NoUser],
   [type |-> "clearError", payload |-> NoUser],
   [type |-> "setUser", payload |-> [id |-> 1, name |-> "set", updated |-> FALSE]]}

InitUser ==
  /\ SsrIdle
  /\ ApiIdle
  /\ RqIdle
  /\ DemoIdle

\* dispatch(fetchUser(userId)): pending is reduced at once, the payload
\* creator waits
DispatchFetchUser(userId) ==
  /\ Len(thunks) < MaxThunks
  /\ user' = extraReducers(user, [type |-> "pending", payload |-> ""])
  /\ thunks' = Append(thunks, [type |-> "fetchUser", arg |-> userId,
                               current |-> NoUser, over |-> NoUser,
                               status |-> "pending"])
  /\ UNCHANGED <<ssrVars, apiVars, rqVars, cleared, demo, timer, counter>>

\* dispatch(updateUser(userData)): pending is reduced at once; with no user
\* the payload creator throws before its wait and rejected follows before
\* any other dispatch
DispatchUpdateUser(userData) ==
  /\ Len(thunks) < MaxThunks
  /\ LET started == extraReducers(user, [type |-> "pending", payload |-> ""])
     IN IF user.data = NoUser
        THEN /\ user' = extraReducers(started, updateUser(user.data, userData))
             /\ thunks' = Append(thunks, [type |-> "updateUser", arg |-> userData.name,
                                          current |-> user.data, over |-> user.data,
                                          status |-> "rejected"])
        ELSE /\ user' = started
             /\ thunks' = Append(thunks, [type |-> "updateUser", arg |-> userData.name,
                                          current |-> user.data, over |-> NoUser,
                                          status |-> "pending"])
  /\ UNCHANGED <<ssrVars, apiVars, rqVars, cleared, demo, timer, counter>>

\* the wait of thunk k is over: its payload creator ends and the resulting
\* action is reduced; over records the user stored when it ended
SettleThunk(k) ==
  /\ k \in 1..Len(thunks)
  /\ thunks[k].status = "pending"
  /\ LET action == IF thunks[k].type = "fetchUser"
                   THEN fetchUser(thunks[k].arg)
                   ELSE updateUser(thunks[k].current, [name |-> thunks[k].arg])
     IN /\ user' = extraReducers(user, action)
        /\ thunks' = [thunks EXCEPT ![k].status = action.type, ![k].over = user.data]
  /\ UNCHANGED <<ssrVars, apiVars, rqVars, cleared, demo, timer, counter>>

DispatchUserAction(action) ==
  /\ user' = reducers(user, action)
  /\ UNCHANGED <<ssrVars, apiVars, rqVars, cleared, demo, thunks, timer, counter>>

NextUser ==
  \/ \E userId \in UserIds : DispatchFetchUser(userId)
  \/ \E userData \in UserDatas : DispatchUpdateUser(userData)
  \/ \E k \in 1..MaxThunks : SettleThunk(k)
  \/ \E action \in UserActions : DispatchUserAction(action)

SpecUser == InitUser /\ [][NextUser]_vars

\* no fetchUser(0) and no updateUser started without a user is ever fulfilled
C24_NeverFulfilled ==
  \A k \in 1..Len(thunks) :
    /\ thunks[k].type = "fetchUser" /\ thunks[k].arg = 0 => thunks[k].status # "fulfilled"
    /\ thunks[k].type = "updateUser" /\ thunks[k].current = NoUser =>
         thunks[k].status = "rejected"

C24_EndOfFetchZero ==
  \A k \in 1..Len(thunks) :
    /\ thunks[k].type = "fetchUser"
    /\ thunks[k].arg = 0
    /\ thunks[k].status = "pending"
    /\ thunks'[k].status # "pending"
    => /\ thunks'[k].status = "rejected"
       /\ user' = [data |-> user.data, loading |-> FALSE, error |-> ZeroIdMessage]

C24_UpdateWithoutUser ==
  /\ Len(thunks') = Len(thunks) + 1
  /\ thunks'[Len(thunks')].type = "updateUser"
  /\ user.data = NoUser
  => /\ thunks'[Len(thunks')].status = "rejected"
     /\ user' = [data |-> NoUser, loading |-> FALSE, error |-> NeedUserMessage]

\* C24: a fetchUser(0) ends rejected, and the step that ends it sets loading
\* to false and error to the zero-id message and leaves the stored user as it
\* was; an updateUser dispatched while no user is stored ends rejected with
\* loading false, its own message as error and data still null.
C24_RejectedThunks ==
  /\ [](C24_NeverFulfilled)
  /\ [][C24_EndOfFetchZero /\ C24_UpdateWithoutUser]_vars

\* a fetchUser(0) was rejected over a stored user and left it in place, and
\* an updateUser without a user was rejected as well
C24_Witness ==
  /\ \E k \in 1..Len(thunks) :
       /\ thunks[k].type = "fetchUser" /\ thunks[k].arg = 0
       /\ thunks[k].status = "rejected"
       /\ thunks[k].over # NoUser
  /\ thunks # <<>>
  /\ thunks[Len(thunks)].type = "updateUser"
  /\ thunks[Len(thunks)].current = NoUser
  /\ thunks[Len(thunks)].status = "rejected"
  /\ user = [data |-> NoUser, loading |-> FALSE, error |-> NeedUserMessage]

(***************************************************************************)
(* UseRefTimerDemo                                                         *)
(*                                                                         *)
(* timer.ref is timerRef.current with 0 for null, timer.active the set of  *)
(* interval ids the browser holds for the component, timer.nextId the id   *)
(* the next setInterval returns (ids are positive), timer.last the handler *)
(* that ran last and timer.held whether the ref held an id when it began.  *)
(***************************************************************************)
MaxSeconds == 4
MaxStarts == 4

\* start without its first line
start_NoGuard(tm) ==
  [tm EXCEPT !.isRunning = TRUE, !.ref = tm.nextId,
             !.active = tm.active \cup {tm.nextId}, !.nextId = tm.nextId + 1]

start(tm) ==
  IF tm.ref # 0 THEN tm
  ELSE [tm EXCEPT !.isRunning = TRUE, !.ref = tm.nextId,
                  !.active = tm.active \cup {tm.nextId}, !.nextId = tm.nextId + 1]

stop(tm) ==
  IF tm.ref # 0
  THEN [tm EXCEPT !.active = tm.active \ {tm.ref}, !.ref = 0, !.isRunning = FALSE]
  ELSE tm

reset(tm) == [stop(tm) EXCEPT !.count = 0]

InitTimer ==
  /\ SsrIdle
  /\ ApiIdle
  /\ RqIdle
  /\ DemoIdle

\* a handler of one of the three buttons runs; the handlers are called
\* whether or not the last render disabled the button, so that their own
\* guards are what is checked
ClickTimer(handler) ==
  /\ timer.mounted
  /\ handler = "start" => timer.nextId <= MaxStarts
  /\ timer' = [(CASE handler = "start" -> start(timer)
                  [] handler = "stop" -> stop(timer)
                  [] handler = "reset" -> reset(timer))
                 EXCEPT !.last = handler, !.held = timer.ref # 0]
  /\ UNCHANGED <<ssrVars, apiVars, rqVars, cleared, demo, user, thunks, counter>>

\* an active interval fires: setCount(c => c + 1)
IntervalFire ==
  /\ timer.mounted
  /\ timer.active # {}
  /\ timer.count < MaxSeconds
  /\ timer' = [timer EXCEPT !.count = timer.count + 1, !.last = "tick",
                            !.held = timer.ref # 0]
  /\ UNCHANGED <<ssrVars, apiVars, rqVars, cleared, demo, user, thunks, counter>>

\* the cleanup of the effect: clearInterval when the ref holds an id
Unmount ==
  /\ timer.mounted
  /\ timer' = [timer EXCEPT !.mounted = FALSE,
                            !.active = IF timer.ref # 0 THEN timer.active \ {timer.ref}
                                       ELSE timer.active,
                            !.last = "unmount", !.held = timer.ref # 0]
  /\ UNCHANGED <<ssrVars, apiVars, rqVars, cleared, demo, user, thunks, counter>>

NextTimer ==
  \/ \E handler \in {"start", "stop", "reset"} : ClickTimer(handler)
  \/ IntervalFire
  \/ Unmount

SpecTimer == InitTimer /\ [][NextTimer]_vars

C25_OneTimer ==
  timer.mounted =>
    /\ Cardinality(timer.active) <= 1
    /\ timer.ref # 0 <=> timer.active # {}
    /\ timer.ref # 0 => timer.active = {timer.ref}

C25_Handlers ==
  /\ timer'.last = "start" /\ timer'.held =>
       timer' = [timer EXCEPT !.last = "start", !.held = TRUE]
  /\ timer'.last \in {"stop", "reset"} => timer'.active = {} /\ timer'.ref = 0
  /\ timer'.last = "reset" => timer'.count = 0

\* C25: while the component is mounted at most one interval is active and
\* the ref holds an id exactly when an interval is active, namely that one;
\* start with an interval running changes nothing; after stop and after
\* reset no interval is active and the ref is null, and reset leaves the
\* count at 0.
C25_AtMostOneTimer ==
  /\ [](C25_OneTimer)
  /\ [][C25_Handlers]_vars

\* after a stop, the second interval of the component has fired and start
\* was called while it was running
C25_Witness ==
  /\ timer.mounted
  /\ timer.last = "start"
  /\ timer.held
  /\ timer.ref = 2
  /\ timer.active = {2}
  /\ timer.nextId = 3
  /\ timer.count = MaxSeconds

(***************************************************************************)
(* counterSlice                                                            *)
(*                                                                         *)
(* A history entry is [action, value]: action stands for the label the     *)
(* reducer builds from its name and payload; the timestamp is left out.    *)
(***************************************************************************)
MaxValue == 3
MaxHistory == 2

HistoryEntry(action, value) ==
  [action |-> action, value |-> value]

\* the reducer with the entry of increment pushed before the value is changed
counterReducer_PushFirst(state, action) ==
  CASE action.type = "increment" ->
         [state EXCEPT !.value = state.value + state.step,
                       !.history = Append(state.history,
                                     HistoryEntry(action, state.value))]
    [] action.type = "decrement" ->
         [state EXCEPT !.value = state.value - state.step,
                       !.history = Append(state.history,
                                     HistoryEntry(action, state.value - state.step))]
    [] action.type = "incrementByAmount" ->
         [state EXCEPT !.value = state.value + action.payload,
                       !.history = Append(state.history,
                                     HistoryEntry(action, state.value + action.payload))]
    [] action.type = "setValue" ->
         [state EXCEPT !.value = action.payload,
                       !.history = Append(state.history,
                                     HistoryEntry(action, action.payload))]
    [] action.type = "setStep" -> [state EXCEPT !.step = action.payload]
    [] action.type = "reset" -> [value |-> 0, history |-> <<>>, step |-> 1]
    [] action.type = "clearHistory" -> [state EXCEPT !.history = <<>>]

counterReducer(state, action) ==
  CASE action.type = "increment" ->
         [state EXCEPT !.value = state.value + state.step,
                       !.history = Append(state.history,
                                     HistoryEntry(action, state.value + state.step))]
    [] action.type = "decrement" ->
         [state EXCEPT !.value = state.value - state.step,
                       !.history = Append(state.history,
                                     HistoryEntry(action, state.value - state.step))]
    [] action.type = "incrementByAmount" ->
         [state EXCEPT !.value = state.value + action.payload,
                       !.history = Append(state.history,
                                     HistoryEntry(action, state.value + action.payload))]
    [] action.type = "setValue" ->
         [state EXCEPT !.value = action.payload,
                       !.history = Append(state.history,
                                     HistoryEntry(action, action.payload))]
    [] action.type = "setStep" -> [state EXCEPT !.step = action.payload]
    [] action.type = "reset" -> [value |-> 0, history |-> <<>>, step |-> 1]
    [] action.type = "clearHistory" -> [state EXCEPT !.history = <<>>]

\* the actions StorePage dispatches; its payloads are integers
\* (parseInt(...) || 0, for the step parseInt(...) || 1)
CounterActions ==
  [type : {"increment", "decrement", "reset", "clearHistory"}, payload : {0}]
    \cup [type : {"incrementByAmount"}, payload : {-1, 0, 2}]
    \cup [type : {"setValue"}, payload : {0, 2}]
    \cup [type : {"setStep"}, payload : {1, 2}]

PushingTypes == {"increment", "decrement", "incrementByAmount", "setValue"}

InitCounter ==
  /\ SsrIdle
  /\ ApiIdle
  /\ RqIdle
  /\ DemoIdle

DispatchCounter(action) ==
  /\ LET next == counterReducer(counter, action)
     IN /\ next.value \in (0 - MaxValue)..MaxValue
        /\ Len(next.history) <= MaxHistory
        /\ counter' = next
  /\ UNCHANGED <<ssrVars, apiVars, rqVars, cleared, demo, user, thunks, timer>>

NextCounter ==
  \E action \in CounterActions : DispatchCounter(action)

SpecCounter == InitCounter /\ [][NextCounter]_vars

C26_LastEntryIsValue ==
  counter.history # <<>> => counter.history[Len(counter.history)].value = counter.value

C26_Reducers ==
  \A action \in CounterActions :
    counter' = counterReducer(counter, action) =>
      /\ action.type \in PushingTypes =>
           /\ Len(counter'.history) = Len(counter.history) + 1
           /\ SubSeq(counter'.history, 1, Len(counter.history)) = counter.history
           /\ counter'.step = counter.step
      /\ action.type = "setStep" =>
           /\ counter'.value = counter.value
           /\ counter'.history = counter.history
           /\ counter'.step = action.payload
      /\ action.type = "reset" => counter' = CounterInitialState
      /\ action.type = "clearHistory" =>
           /\ counter'.history = <<>>
           /\ counter'.value = counter.value
           /\ counter'.step = counter.step

\* C26: whenever the history is not empty its last entry holds the current
\* value; increment, decrement, incrementByAmount and setValue each append
\* exactly one entry to the history and keep the entries before it; setStep
\* changes neither value nor history; reset gives value 0, an empty history
\* and step 1.
C26_HistoryFollowsValue ==
  /\ [](C26_LastEntryIsValue)
  /\ [][C26_Reducers]_vars

\* with step 2, an increment after a setValue: two entries, the last one
\* holding the current value
C26_Witness ==
  /\ counter.step = 2
  /\ Len(counter.history) = 2
  /\ counter.history[1].action.type = "setValue"
  /\ counter.history[2].action.type = "increment"
  /\ counter.history[2].value = counter.history[1].value + 2
  /\ counter.value = counter.history[2].value

(***************************************************************************)
(* Client entry properties                                                 *)
(***************************************************************************)
\* C11: when the document holds no element with id "root", the client entry
\* logs the failure and aborts without ever calling hydrateRoot.
C11_AbsentMountNoHydrateCall ==
  \A r \in ClientTabs :
    (page[r].loaded /\ ~HasMount(reqs[r].resp.body)) => page[r].hydrateCalls = 0

\* C13: the View the client router selects for the address the tab is at is the
\* View the server selected for the request URL, the one whose markup the
\* mount point of the response holds.
C13_SameViewBothSides ==
  \A r \in ClientTabs :
    page[r].view # "none" =>
      /\ page[r].view = MatchRoute(reqs[r].url)
      /\ Occurrences(MountInner(reqs[r].resp.body),
                     RenderView(page[r].view, InitialViewState)) = 1

C13_Witness ==
  \E r \in ClientTabs :
    /\ reqs[r].url = Url(<<"counter">>, "?tab=1")
    /\ page[r].hash = "about"
    /\ mount[r] = "hydrated"
    /\ page[r].view = "Counter"

\* C14: the first client render starts from the state the server render
\* started from and is token for token the markup in the mount point; a
\* View's state differs from that initial state only in a hydrated mount point.
C14_SameFirstRenderThenChange ==
  \A r \in ClientTabs :
    /\ page[r].view # "none" =>
         /\ page[r].firstRender = MountInner(reqs[r].resp.body)
         /\ page[r].firstRender = renderToString(reqs[r].url)
    /\ page[r].st # InitialViewState =>
         /\ mount[r] = "hydrated"
         /\ page[r].view # "none"

C14_Witness ==
  \E r \in ClientTabs :
    /\ page[r].view = "Counter"
    /\ page[r].firstRender = MountInner(reqs[r].resp.body)
    /\ page[r].st.isHydrated
    /\ page[r].st.count = 1
    /\ Len(page[r].st.clickHistory) = 5

(***************************************************************************)
(* Handler properties: one response, no shared state                       *)
(***************************************************************************)
\* the steps of a handler run that write to the response
ResponseWrites == {"write", "status", "send", "end"}

\* the position in a trace at which the render call has returned or thrown
RenderOutcomePos(trace) ==
  IF \E i \in 1..Len(trace) : trace[i] = "throw"
  THEN Min({i \in 1..Len(trace) : trace[i] = "throw"})
  ELSE Min({i \in 1..Len(trace) : trace[i] = "renderToString"} \cup {Len(trace) + 1})

\* C12: in every run of the page handler no step writes to the response before
\* the render call has returned or thrown, and the run sends exactly one
\* response, as its last step; a request not yet handled has no response.
C12_OneSendAfterRender ==
  \A r \in ReqIds :
    /\ reqs[r].pc # "done" => reqs[r].resp = NoResponse
    /\ reqs[r].pc = "done" =>
         LET trace == reqs[r].resp.trace
         IN /\ CountIn(trace, "renderToString") >= 1
            /\ \A i \in 1..Len(trace) :
                 trace[i] \in ResponseWrites => i > RenderOutcomePos(trace)
            /\ CountIn(trace, "send") = 1
            /\ CountIn(trace, "write") = 0
            /\ trace[Len(trace)] = "send"

C12_Witness ==
  /\ \E r \in Done : reqs[r].resp.status = 200 /\ CountIn(reqs[r].resp.trace, "send") = 1
  /\ now = MaxClock

\* C17: handling a request changes nothing but that request's own response:
\* responses already sent stay as they are, a render that returned gives
\* status 200 and the markup of the View of the request's own URL whatever was
\* handled before (failed renders included), and two requests for one URL with
\* the same render outcome get the same status and mount-point markup.
C17_Answers ==
  \A r \in ServerReqIds :
    reqs[r].pc = "done" =>
      /\ ~reqs[r].threw =>
           /\ reqs[r].resp.status = 200
           /\ MountInner(reqs[r].resp.body) = renderToString(reqs[r].url)
      /\ \A q \in ServerReqIds :
           (reqs[q].pc = "done" /\ reqs[q].url = reqs[r].url
              /\ reqs[q].threw = reqs[r].threw) =>
             /\ reqs[q].resp.status = reqs[r].resp.status
             /\ HasMount(reqs[q].resp.body) = HasMount(reqs[r].resp.body)
             /\ HasMount(reqs[r].resp.body) =>
                  MountInner(reqs[q].resp.body) = MountInner(reqs[r].resp.body)

C17_Frame ==
  \A r \in ServerReqIds :
    /\ reqs[r].pc = "done" => reqs'[r] = reqs[r]
    /\ reqs'[r] # reqs[r] => \A q \in ServerReqIds \ {r} : reqs'[q] = reqs[q]

C17_NoSharedState == [](C17_Answers) /\ [][C17_Frame]_vars

C17_Witness ==
  /\ reqs[1].pc = "done" /\ reqs[1].threw
  /\ reqs[2].pc = "done" /\ ~reqs[2].threw
  /\ reqs[2].url = reqs[1].url
  /\ reqs[2].resp.status = 200
  /\ now > 0

====
